---- MODULE Spec2Model ----
(***************************************************************************)
(* State-machine model of the ChildGuard REST backend.                     *)
(*                                                                         *)
(* The repository holds two deployments of the same server that differ in  *)
(* the password-recovery workflow:                                         *)
(*   src/server.js         6-digit code  (/request-reset, /verify-reset)   *)
(*   src/unnamed/part_000  opaque token  (/forgot-password,                *)
(*                                        /reset-password/:token)          *)
(* The variable scheme says which of the two is running; it never changes. *)
(*                                                                         *)
(* Every handler is an async function: it runs atomically up to its next   *)
(* store or provider round-trip (an await, or the sendMail callback), and  *)
(* other requests interleave at those points.  A request in flight is a    *)
(* slot of reqs holding the request, the handler's position and its local  *)
(* variables; the step that answers it frees the slot and leaves the       *)
(* response in last.                                                       *)
(* Awaits that touch no shared state (bcrypt, jwt) are folded into the     *)
(* step that follows them.                                                 *)
(***************************************************************************)
EXTENDS Integers, Sequences, FiniteSets

VARIABLES
    scheme,     \* "code" (src/server.js) or "token" (src/unnamed/part_000)
    users,      \* the User collection: a set of documents
    nextId,     \* next _id the store hands out
    now,        \* Date.now(), in clock ticks
    reqs,       \* the request slots: handlers in flight
    last        \* the request the last step answered (IdleReq when it answered none)

vars == <<scheme, users, nextId, now, reqs, last>>

(***************************************************************************)
(* Bounds                                                                  *)
(***************************************************************************)
MaxReqs  == 2       \* requests in flight at once
MaxUsers == 2       \* documents ever inserted
MaxTime  == 2       \* last clock tick
RandDenom == 2      \* Math.random() returns k / RandDenom, k in 0..RandDenom-1
MaxDenom == 2000    \* finest grid of Math.random() the generator is evaluated on

Slots     == 1..MaxReqs
Missing   == "undefined"            \* a field absent from the request
Emails    == {"a@x.com", "b@x.com"}
Phones    == {"0911", "0922"}
Passwords == {"OldPass1", "NewPass1"}
Tokens    == {"tokA", "tokB"}       \* values of crypto.randomBytes(20).toString("hex")
Docs      == {"img"}                \* base64 payloads (validId, selfie, avatar)
Ids       == 1..MaxUsers
SeedEmail == "a@x.com"

(***************************************************************************)
(* Expiry windows, one clock tick each: a tick is 10 minutes when the code *)
(* scheme runs and one hour when the token scheme runs.                    *)
(***************************************************************************)
CodeTTL  == 1
TokenTTL == 1

NoSecret == "undefined"     \* resetCode / resetPasswordToken unset
NoExpiry == -1              \* resetCodeExpires / resetPasswordExpires unset

(***************************************************************************)
(* bcrypt: the digest of a password is a value of another type than the    *)
(* password; compare(p, d) holds exactly for the digest of p.              *)
(***************************************************************************)
Hash(p) == <<"bcrypt", p>>

Compare(p, digest) == digest = Hash(p)

(***************************************************************************)
(* Number.prototype.toString for a non-negative integer.                   *)
(***************************************************************************)
Digit(d) == CASE d = 0 -> "0" [] d = 1 -> "1" [] d = 2 -> "2" [] d = 3 -> "3"
              [] d = 4 -> "4" [] d = 5 -> "5" [] d = 6 -> "6" [] d = 7 -> "7"
              [] d = 8 -> "8" [] d = 9 -> "9"

RECURSIVE ToString(_)
ToString(n) == IF n < 10 THEN Digit(n) ELSE ToString(n \div 10) \o Digit(n % 10)

\* a generator that leaves out the offset: Math.floor(Math.random() * 900000)
RandomIntNoOffset(k, d) == (k * 900000) \div d

\* Math.floor(100000 + Math.random() * 900000), Math.random() = k / d
RandomInt(k, d) == (100000 * d + k * 900000) \div d

\* Math.floor(100000 + Math.random() * 900000).toString(), Math.random() = k / RandDenom
GenCode(k) == ToString(RandomInt(k, RandDenom))

Codes == {GenCode(k) : k \in 0..(RandDenom - 1)}

\* the secrets the running scheme generates
Secrets == IF scheme = "code" THEN Codes ELSE Tokens

TTL == IF scheme = "code" THEN CodeTTL ELSE TokenTTL

(***************************************************************************)
(* User documents.  Only schema-valid documents are stored, so age and     *)
(* gender (required by the schema of src/server.js) are not carried.       *)
(* secret / expires are resetCode / resetCodeExpires in the code scheme    *)
(* and resetPasswordToken / resetPasswordExpires in the token scheme.      *)
(* failed is not a stored field: it records that the dispatch of the email *)
(* carrying the stored secret has failed.                                  *)
(***************************************************************************)
NewUser(id, email, digest, phone, validId) ==
    [id |-> id, email |-> email, password |-> digest, phone |-> phone,
     status |-> "pending", validId |-> validId, avatar |-> Missing,
     secret |-> NoSecret, expires |-> NoExpiry, failed |-> FALSE]

\* User.findOne({ email })
ByEmail(email) == {u \in users : u.email = email}

\* User.findOne({ phone })
ByPhone(phone) == {u \in users : u.phone = phone}

\* User.findById(id)
ById(id) == {u \in users : u.id = id}

\* what a handler in flight still uses of the document it read: _id, secret and expiry
Held(found) ==
    {[u EXCEPT !.email = Missing, !.phone = Missing, !.password = Hash(Missing),
               !.status = "pending", !.validId = Missing, !.avatar = Missing,
               !.failed = FALSE] : u \in found}

\* updateOne({ _id: id }, { $set: patch }): the fields of patch overwrite the stored ones
Patched(id, patch) ==
    {IF u.id = id THEN [f \in DOMAIN u |-> IF f \in DOMAIN patch THEN patch[f] ELSE u[f]]
                  ELSE u : u \in users}

(***************************************************************************)
(* Requests and responses                                                  *)
(***************************************************************************)
Resp(status, msg) == [status |-> status, msg |-> msg, token |-> FALSE, chatToken |-> FALSE]

NoResp == Resp(0, "")

(***************************************************************************)
(* A request: its route (op), the handler's position (pc), the fields of   *)
(* the request, and the handler's locals: uid is the :id / userId of the   *)
(* request and then the _id of the document the handler holds, snap what   *)
(* it holds of that document, at the Date.now() its checks read.           *)
(* again, local, asked and remote are not program state: again records     *)
(* that the secret the handler read has been consumed since; local that    *)
(* the store call of the answered request resolved, asked that the handler *)
(* called the chat provider, remote that the provider's call resolved.     *)
(***************************************************************************)
IdleReq ==
    [op |-> "none", pc |-> "idle", name |-> Missing, email |-> Missing,
     password |-> Missing, phone |-> Missing, image |-> Missing, selfie |-> Missing,
     secret |-> Missing, uid |-> 0, snap |-> {}, newSecret |-> NoSecret,
     newExpires |-> NoExpiry, at |-> 0, again |-> FALSE,
     local |-> FALSE, asked |-> FALSE, remote |-> FALSE, resp |-> NoResp]

Arrived(op) == [IdleReq EXCEPT !.op = op, !.pc = "start"]

\* POST /signup bodies: the complete ones, and one body per absent field
FullSignup ==
    {[Arrived("signup") EXCEPT !.name = "Ana", !.email = e, !.password = "OldPass1",
                               !.phone = ph, !.image = "img", !.selfie = "img"] :
        e \in Emails, ph \in Phones}

SignupRequests ==
    FullSignup \cup
    {[(CHOOSE q \in FullSignup : q.email = SeedEmail /\ q.phone = "0911") EXCEPT ![f] = Missing] :
        f \in {"name", "email", "password", "phone", "image", "selfie"}}

LoginRequests ==
    {[Arrived("login") EXCEPT !.email = e, !.password = p] :
        e \in Emails, p \in Passwords \cup {Missing}}

IdRequests(op) ==
    {[Arrived(op) EXCEPT !.uid = id, !.image = img] : id \in Ids, img \in Docs \cup {Missing}}

DeleteRequests == {[Arrived("delete") EXCEPT !.uid = id] : id \in Ids}

RequestResetRequests == {[Arrived("request") EXCEPT !.email = e] : e \in Emails}

\* /verify-reset carries email, code and password; /reset-password/:token the token
\* (in the URL path, so never absent) and the password
CompleteResetRequests ==
    IF scheme = "code"
    THEN {[Arrived("complete") EXCEPT !.email = e, !.secret = c, !.password = p] :
            e \in Emails, c \in Codes \cup {Missing}, p \in Passwords \cup {Missing}}
    ELSE {[Arrived("complete") EXCEPT !.secret = t, !.password = p] :
            t \in Tokens, p \in Passwords \cup {Missing}}

Requests(op) ==
    CASE op = "signup"    -> SignupRequests
      [] op = "login"     -> LoginRequests
      [] op = "avatar"    -> IdRequests("avatar")
      [] op = "submit-id" -> IdRequests("submit-id")
      [] op = "delete"    -> DeleteRequests
      [] op = "request"   -> RequestResetRequests
      [] op = "complete"  -> CompleteResetRequests

AccountOps  == {"signup", "login", "avatar", "submit-id", "delete"}
RecoveryOps == {"request", "complete"}

RequestsOf(ops) == UNION {Requests(op) : op \in ops}

\* the requests that name no other user than the one of SeedUser
AboutSeed(requests) ==
    {q \in requests : q.email \in {Missing, SeedEmail} /\ q.uid \in {0, 1}
                      /\ q.phone \in {Missing, "0911"}}

\* res.status(status).json(...) ends the request
Reply(req, resp) == [req EXCEPT !.pc = "done", !.resp = resp]

\* the catch block of a handler
Caught(req, msg) == Reply(req, Resp(500, msg))

(***************************************************************************)
(* A rejected promise in an async handler that has no try/catch: Express 4 *)
(* never answers the request, Express 5 passes the error to its default    *)
(* error handler, which answers 500.                                       *)
(***************************************************************************)
Unhandled(req) ==
    {[Arrived(req.op) EXCEPT !.pc = "hung"], Reply(req, Resp(500, "Internal Server Error"))}

\* what is left of an answered request: the route, the document named, the response
\* and the records
Answered(req) ==
    [IdleReq EXCEPT !.op = req.op, !.pc = "done", !.uid = req.uid, !.resp = req.resp,
                    !.local = req.local, !.asked = req.asked, !.remote = req.remote,
                    !.again = req.again]

\* slot r ends its step as req: answered (the slot is free again), hung, or still running
Continue(r, req) ==
    IF req.pc = "done"
    THEN /\ reqs' = [reqs EXCEPT ![r] = IdleReq]
         /\ last' = Answered(req)
    ELSE /\ reqs' = [reqs EXCEPT ![r] = req]
         /\ last' = IdleReq

\* slot r runs the handler of op and stands at pc
At(r, op, pc) == reqs[r].op = op /\ reqs[r].pc = pc

(***************************************************************************)
(* Initial state: the server has connected to a collection that is empty   *)
(* or holds one approved user registered earlier.                          *)
(***************************************************************************)
SeedUser ==
    [NewUser(1, SeedEmail, Hash("OldPass1"), "0911", "img") EXCEPT !.status = "approved"]

Init ==
    /\ scheme \in {"code", "token"}
    /\ users \in {{}, {SeedUser}}
    /\ nextId = Cardinality(users) + 1
    /\ now = 0
    /\ reqs = [r \in Slots |-> IdleReq]
    /\ last = IdleReq

\* Date.now() advances
Tick ==
    /\ now < MaxTime
    /\ now' = now + 1
    /\ last' = IdleReq
    /\ UNCHANGED <<scheme, users, nextId, reqs>>

\* the external moderation action: a pending user is promoted to approved
Approve ==
    \E u \in users :
        /\ u.status = "pending"
        /\ users' = Patched(u.id, [status |-> "approved"])
        /\ last' = IdleReq
        /\ UNCHANGED <<scheme, nextId, now, reqs>>

\* the requests in flight
Busy == {r \in Slots : reqs[r].pc # "idle"}

\* express hands one of requests to its handler, while fewer than limit are in flight
Receive(requests, limit) ==
    \E r \in Slots :
        \E req \in requests :
            /\ reqs[r].pc = "idle"
            /\ Cardinality(Busy) < limit
            /\ reqs' = [reqs EXCEPT ![r] = req]
            /\ last' = IdleReq
            /\ UNCHANGED <<scheme, users, nextId, now>>

(***************************************************************************)
(* POST /login: one read, then only local work and the chat provider.      *)
(* dbOk: User.findOne resolved; chatOk: streamChat.upsertUser resolved.    *)
(***************************************************************************)
\* LoginResp that answers with the session token alone when the chat provider fails
LoginRespDegrades(email, password, dbOk, chatOk) ==
    LET found == ByEmail(email) IN
    IF ~dbOk THEN Resp(500, "Internal server error")
    ELSE IF found = {} THEN Resp(400, "Invalid email or password")
    ELSE LET user == CHOOSE u \in found : TRUE IN
         IF password = Missing
         THEN Resp(500, "Internal server error")
         ELSE IF ~Compare(password, user.password)
         THEN Resp(400, "Invalid email or password")
         ELSE IF user.status = "pending"
         THEN Resp(403, "Your account is pending approval")
         ELSE [Resp(200, "") EXCEPT !.token = TRUE, !.chatToken = chatOk]

\* LoginResp with the check of the lifecycle state ahead of the check of the credential
LoginRespStateFirst(email, password, dbOk, chatOk) ==
    LET found == ByEmail(email) IN
    IF ~dbOk THEN Resp(500, "Internal server error")
    ELSE IF found = {} THEN Resp(400, "Invalid email or password")
    ELSE LET user == CHOOSE u \in found : TRUE IN
         IF user.status = "pending"
         THEN Resp(403, "Your account is pending approval")
         ELSE IF password = Missing
         THEN Resp(500, "Internal server error")
         ELSE IF ~Compare(password, user.password)
         THEN Resp(400, "Invalid email or password")
         ELSE IF ~chatOk
         THEN Resp(500, "Internal server error")
         ELSE [Resp(200, "") EXCEPT !.token = TRUE, !.chatToken = TRUE]

\* LoginResp without the check of the lifecycle state
LoginRespNoGate(email, password, dbOk, chatOk) ==
    LET found == ByEmail(email) IN
    IF ~dbOk THEN Resp(500, "Internal server error")
    ELSE IF found = {} THEN Resp(400, "Invalid email or password")
    ELSE LET user == CHOOSE u \in found : TRUE IN
         IF password = Missing
         THEN Resp(500, "Internal server error")
         ELSE IF ~Compare(password, user.password)
         THEN Resp(400, "Invalid email or password")
         ELSE IF ~chatOk
         THEN Resp(500, "Internal server error")
         ELSE [Resp(200, "") EXCEPT !.token = TRUE, !.chatToken = TRUE]

LoginResp(email, password, dbOk, chatOk) ==
    LET found == ByEmail(email) IN
    IF ~dbOk THEN Resp(500, "Internal server error")
    ELSE IF found = {} THEN Resp(400, "Invalid email or password")
    ELSE LET user == CHOOSE u \in found : TRUE IN
         IF password = Missing
         THEN Resp(500, "Internal server error")    \* bcrypt.compare throws
         ELSE IF ~Compare(password, user.password)
         THEN Resp(400, "Invalid email or password")
         ELSE IF user.status = "pending"
         THEN Resp(403, "Your account is pending approval")
         ELSE IF ~chatOk
         THEN Resp(500, "Internal server error")
         ELSE [Resp(200, "") EXCEPT !.token = TRUE, !.chatToken = TRUE]

Login ==
    \E r \in Slots, dbOk \in BOOLEAN, chatOk \in BOOLEAN :
        LET req  == reqs[r]
            resp == LoginResp(req.email, req.password, dbOk, chatOk)
            \* the handler reaches streamChat.upsertUser
            asks == LoginResp(req.email, req.password, dbOk, TRUE).token
        IN
        /\ At(r, "login", "start")
        /\ Continue(r, Reply([req EXCEPT !.local = dbOk, !.asked = asks,
                                         !.remote = asks /\ chatOk], resp))
        /\ UNCHANGED <<scheme, users, nextId, now>>

(***************************************************************************)
(* POST /signup                                                            *)
(***************************************************************************)
\* the field check, then User.findOne({ email })
SignupStart ==
    \E r \in Slots, dbOk \in BOOLEAN :
        LET req == reqs[r] IN
        /\ At(r, "signup", "start")
        /\ Continue(r,
              IF Missing \in {req.name, req.email, req.password, req.phone, req.image, req.selfie}
              THEN Reply(req, Resp(400, "Missing email or password"))
              ELSE IF ~dbOk THEN Caught(req, "Internal server error")
              ELSE IF ByEmail(req.email) # {} THEN Reply(req, Resp(400, "User already exists"))
              ELSE [req EXCEPT !.pc = "findPhone"])
        /\ UNCHANGED <<scheme, users, nextId, now>>

\* User.findOne({ phone })
SignupFindPhone ==
    \E r \in Slots, dbOk \in BOOLEAN :
        LET req == reqs[r] IN
        /\ At(r, "signup", "findPhone")
        /\ Continue(r,
              IF ~dbOk THEN Caught(req, "Internal server error")
              ELSE IF ByPhone(req.phone) # {} THEN Reply(req, Resp(400, "User already exists"))
              ELSE [req EXCEPT !.pc = "save"])
        /\ UNCHANGED <<scheme, users, nextId, now>>

(***************************************************************************)
(* new User({...}).save(): the document is validated against the schema    *)
(* (src/server.js requires age and gender, which the handler never sets),  *)
(* then inserted; the unique index on email rejects a duplicate.           *)
(***************************************************************************)
SchemaValid == scheme # "code"

SignupSave ==
    \E r \in Slots, dbOk \in BOOLEAN :
        LET req == reqs[r]
            saved == SchemaValid /\ dbOk /\ ByEmail(req.email) = {}
        IN
        /\ At(r, "signup", "save")
        /\ saved => nextId <= MaxUsers
        /\ IF saved
           THEN /\ users' = users \cup {NewUser(nextId, req.email, Hash(req.password),
                                                req.phone, req.image)}
                /\ nextId' = nextId + 1
                /\ Continue(r, Reply([req EXCEPT !.local = TRUE], Resp(201, "Signup successful")))
           ELSE /\ UNCHANGED <<users, nextId>>
                /\ Continue(r, Caught(req, "Internal server error"))
        /\ UNCHANGED <<scheme, now>>

(***************************************************************************)
(* POST /api/users/:id/avatar: User.findByIdAndUpdate(id, { avatar })      *)
(***************************************************************************)
\* an update document that also resets the lifecycle state, as that of /submit-id does
AvatarPatchDemotes(avatar) == [avatar |-> avatar, status |-> "pending"]

\* the update document { avatar }
AvatarPatch(avatar) == [avatar |-> avatar]

UpdateAvatar ==
    \E r \in Slots, dbOk \in BOOLEAN :
        LET req == reqs[r] IN
        /\ At(r, "avatar", "start")
        /\ users' = IF dbOk /\ req.image # Missing
                    THEN Patched(req.uid, AvatarPatch(req.image)) ELSE users
        /\ Continue(r, IF dbOk THEN Reply([req EXCEPT !.local = TRUE], Resp(200, "Avatar updated"))
                               ELSE Caught(req, "Failed to update avatar"))
        /\ UNCHANGED <<scheme, nextId, now>>

(***************************************************************************)
(* POST /submit-id:                                                        *)
(*   User.findByIdAndUpdate(userId, { validId: base64Image, status: "pending" }) *)
(***************************************************************************)
SubmitIdPatch(base64Image) ==
    IF base64Image = Missing THEN [status |-> "pending"]
    ELSE [validId |-> base64Image, status |-> "pending"]

SubmitId ==
    \E r \in Slots, dbOk \in BOOLEAN :
        LET req == reqs[r] IN
        /\ At(r, "submit-id", "start")
        /\ users' = IF dbOk THEN Patched(req.uid, SubmitIdPatch(req.image)) ELSE users
        /\ Continue(r, IF dbOk THEN Reply([req EXCEPT !.local = TRUE],
                                          Resp(200, "Valid ID submitted, awaiting approval"))
                               ELSE Caught(req, "Error submitting ID"))
        /\ UNCHANGED <<scheme, nextId, now>>

(***************************************************************************)
(* DELETE /api/users/:id: User.findByIdAndDelete, then the hard delete at  *)
(* the chat provider.  local: the document was removed; remote: the        *)
(* provider's delete resolved.                                             *)
(***************************************************************************)
DeleteResp(found, dbOk, chatOk) ==
    IF ~dbOk THEN Resp(500, "Failed to delete user")
    ELSE IF ~found THEN Resp(404, "User not found")
    ELSE IF ~chatOk THEN Resp(500, "Failed to delete user")
    ELSE Resp(200, "User deleted from MongoDB and Stream Chat")

DeleteAccount ==
    \E r \in Slots, dbOk \in BOOLEAN, chatOk \in BOOLEAN :
        LET req     == reqs[r]
            found   == ById(req.uid) # {}
            removed == dbOk /\ found
        IN
        /\ At(r, "delete", "start")
        /\ users' = IF removed THEN users \ ById(req.uid) ELSE users
        /\ Continue(r, Reply([req EXCEPT !.local = removed, !.asked = removed,
                                         !.remote = removed /\ chatOk],
                             DeleteResp(found, dbOk, chatOk)))
        /\ UNCHANGED <<scheme, nextId, now>>

(***************************************************************************)
(* Comparisons of the handlers on a Date field that may be unset.          *)
(***************************************************************************)
\* user.resetCodeExpires && user.resetCodeExpires > Date.now()    (and Mongo's $gt)
After(expires, t) == expires # NoExpiry /\ expires > t

\* user.resetCodeExpires < Date.now()      (undefined < n is false)
Before(expires, t) == expires # NoExpiry /\ expires < t

(***************************************************************************)
(* RequestReset: POST /request-reset (code), POST /forgot-password (token) *)
(* Only the token scheme wraps the handler in try/catch.                   *)
(***************************************************************************)
\* a rejected await ends the request
Rejected(req) ==
    IF scheme = "code" THEN Unhandled(req) ELSE {Caught(req, "Internal server error")}

\* a rate limit that holds for as long as any secret is stored, expired or not
RateLimitedWhileStored(user, t) == scheme = "code" /\ user.secret # NoSecret

\* the 429 branch exists in /request-reset only
RateLimited(user, t) == scheme = "code" /\ After(user.expires, t)

\* User.findOne({ email }), the checks, and the new secret and expiry set on the document
RequestResetStart ==
    \E r \in Slots, dbOk \in BOOLEAN :
        LET req   == reqs[r]
            found == ByEmail(req.email) IN
        /\ At(r, "request", "start")
        /\ \E next \in
              (IF ~dbOk THEN Rejected(req)
               ELSE IF found = {}
               THEN {Reply(req, Resp(404, "User not found with that email"))}
               ELSE LET user == CHOOSE u \in found : TRUE IN
                    IF RateLimited(user, now)
                    THEN {Reply(req, Resp(429, "Please wait before requesting a new code."))}
                    ELSE {[req EXCEPT !.pc = "save", !.uid = user.id, !.newSecret = s,
                                      !.newExpires = now + TTL] : s \in Secrets}) :
              Continue(r, next)
        /\ UNCHANGED <<scheme, users, nextId, now>>

\* user.save(): the two modified paths are written to the stored document
RequestResetSave ==
    \E r \in Slots, dbOk \in BOOLEAN :
        LET req == reqs[r]
            saved == dbOk /\ ById(req.uid) # {}
        IN
        /\ At(r, "request", "save")
        /\ users' = IF saved
                    THEN Patched(req.uid, [secret |-> req.newSecret, expires |-> req.newExpires,
                                           failed |-> FALSE])
                    ELSE users
        /\ \E next \in (IF saved THEN {[req EXCEPT !.pc = "mail", !.local = TRUE]}
                                 ELSE Rejected(req)) :
              Continue(r, next)
        /\ UNCHANGED <<scheme, nextId, now>>

\* the dispatch of the email that carried the secret of request req failed
Undelivered(req) ==
    {IF u.id = req.uid /\ u.secret = req.newSecret /\ u.expires = req.newExpires
     THEN [u EXCEPT !.failed = TRUE] ELSE u : u \in users}

\* the callback of transporter.sendMail
RequestResetMail ==
    \E r \in Slots, mailOk \in BOOLEAN :
        LET req == reqs[r] IN
        /\ At(r, "request", "mail")
        /\ users' = IF mailOk THEN users ELSE Undelivered(req)
        /\ Continue(r,
              IF mailOk
              THEN Reply([req EXCEPT !.remote = TRUE],
                         Resp(200, IF scheme = "code" THEN "Reset code sent to email"
                                                      ELSE "Reset email sent successfully"))
              ELSE Reply(req, Resp(500, IF scheme = "code" THEN "Failed to send email"
                                                           ELSE "Email failed to send")))
        /\ UNCHANGED <<scheme, nextId, now>>

(***************************************************************************)
(* CompleteReset: POST /verify-reset (code), POST /reset-password/:token   *)
(***************************************************************************)
\* the documents the handler's findOne can return
ResetCandidates(email, secret, t) ==
    IF scheme = "code" THEN ByEmail(email)
    ELSE {u \in users : u.secret = secret /\ After(u.expires, t)}

\* /verify-reset: !user || user.resetCode !== code || user.resetCodeExpires < Date.now()
CodeRejected(found, code, t) ==
    \/ found = {}
    \/ \E u \in found : u.secret # code \/ Before(u.expires, t)

\* bcrypt.hash(password, 10) rejects a password that is absent
Hashing(req) == IF req.password = Missing THEN Rejected(req) ELSE {req}

\* the read, the checks and the hashing; t2 is the clock the second expiry check reads
CompleteResetStart ==
    \E r \in Slots, dbOk \in BOOLEAN, t2 \in {now, now + 1} :
        LET req   == [reqs[r] EXCEPT !.at = now]
            found == ResetCandidates(req.email, req.secret, now)
        IN
        /\ At(r, "complete", "start")
        /\ t2 <= MaxTime
        /\ scheme = "token" => t2 = now
        /\ \E next \in
              (IF ~dbOk THEN Rejected(req)
               ELSE IF scheme = "code"
               THEN IF CodeRejected(found, req.secret, now)
                    THEN {Reply(req, Resp(400, "Invalid or expired code"))}
                    ELSE IF \E u \in found : Before(u.expires, t2)
                    THEN {Reply(req, Resp(400, "Code expired"))}
                    ELSE Hashing([req EXCEPT !.pc = "save", !.snap = Held(found),
                                             !.uid = (CHOOSE u \in found : TRUE).id])
               ELSE IF found = {}
               THEN {Reply(req, Resp(400, "Invalid or expired token"))}
               ELSE UNION {Hashing([req EXCEPT !.pc = "save", !.snap = Held({u}),
                                                !.uid = u.id]) : u \in found}) :
              Continue(r, next)
        /\ UNCHANGED <<scheme, users, nextId, now>>

\* the issued secret a request holds: user, secret and expiry of the document it read
Issuance(req) == {<<u.id, u.secret, u.expires>> : u \in {v \in req.snap : v.secret # NoSecret}}

\* request q is in flight and holds the secret that slot r is consuming
Stale(r, q) ==
    /\ q # r /\ At(q, "complete", "save")
    /\ Issuance(reqs[q]) \cap Issuance(reqs[r]) # {}

\* a reset that writes the new digest and leaves the secret and its expiry in place
ResetPatchKeepsSecret(password) == [password |-> Hash(password)]

\* the paths the handler has modified: the new digest, the secret and its expiry unset
ResetPatch(password) ==
    [password |-> Hash(password), secret |-> NoSecret, expires |-> NoExpiry, failed |-> FALSE]

\* user.save() writes the modified paths to the stored document
CompleteResetSave ==
    \E r \in Slots, dbOk \in BOOLEAN :
        LET req == reqs[r]
            saved == dbOk /\ ById(req.uid) # {}
        IN
        /\ At(r, "complete", "save")
        /\ users' = IF saved
                    THEN Patched(req.uid, ResetPatch(req.password))
                    ELSE users
        /\ \E next \in
              (IF saved
               THEN {Reply([req EXCEPT !.local = TRUE],
                           Resp(200, IF scheme = "code" THEN "Password reset successfully"
                                     ELSE "Password has been reset successfully"))}
               ELSE Rejected(req)) :
              /\ last' = IF next.pc = "done" THEN Answered(next) ELSE IdleReq
              /\ reqs' = [q \in Slots |->
                            IF q = r THEN (IF next.pc = "done" THEN IdleReq ELSE next)
                            ELSE IF saved /\ Stale(r, q) THEN [reqs[q] EXCEPT !.again = TRUE]
                            ELSE reqs[q]]
        /\ UNCHANGED <<scheme, nextId, now>>

(***************************************************************************)
(* Next-state relations                                                    *)
(***************************************************************************)
Account ==
    \/ Approve
    \/ Login
    \/ SignupStart
    \/ SignupFindPhone
    \/ SignupSave
    \/ UpdateAvatar
    \/ SubmitId
    \/ DeleteAccount

Recovery ==
    \/ Tick
    \/ RequestResetStart
    \/ RequestResetSave
    \/ RequestResetMail
    \/ CompleteResetStart
    \/ CompleteResetSave

Next == Receive(RequestsOf(AccountOps \cup RecoveryOps), MaxReqs) \/ Account \/ Recovery

Spec == Init /\ [][Next]_vars

\* the lifecycle operations alone, requests overlapping
SpecAccount == Init /\ [][Receive(RequestsOf(AccountOps), MaxReqs) \/ Account]_vars

\* the recovery workflow and login, requests overlapping
SpecRecovery ==
    Init /\ [][Receive(RequestsOf(RecoveryOps \cup {"login"}), MaxReqs) \/ Recovery \/ Login]_vars

\* every operation of the server on one user, one request after the other
SpecSeq ==
    Init /\ [][Receive(AboutSeed(RequestsOf(AccountOps \cup RecoveryOps)), 1)
               \/ Account \/ Recovery]_vars

\* RequestReset alone, one request after the other
SpecRequest ==
    Init /\ [][\/ Receive(RequestsOf({"request"}), 1)
               \/ Tick
               \/ RequestResetStart
               \/ RequestResetSave
               \/ RequestResetMail]_vars

(***************************************************************************)
(* Properties                                                              *)
(***************************************************************************)
\* this step answers the request of slot r
Answering(r) == reqs[r].pc # "idle" /\ reqs'[r].pc = "idle" /\ last'.pc = "done"

\* the last step answered a request of route op with this status
Answer(op, status) == last.op = op /\ last.pc = "done" /\ last.resp.status = status

(***************************************************************************)
(* C1: a login that finds its user in state pending is answered without a  *)
(* session token and without a chat token, whatever password it carries.   *)
(***************************************************************************)
C1_PendingGetsNoToken ==
    [][\A r \in Slots :
          (/\ At(r, "login", "start")
           /\ Answering(r)
           /\ \E u \in ByEmail(reqs[r].email) : u.status = "pending")
          => ~last'.resp.token /\ ~last'.resp.chatToken]_vars

\* a login with the right password was turned away because the user is pending
C1_Witness ==
    /\ Answer("login", 403)
    /\ \E u \in users : u.status = "pending"

(***************************************************************************)
(* C2: an issued recovery secret is consumed by at most one successful     *)
(* CompleteReset: no CompleteReset succeeds with a secret that another     *)
(* successful CompleteReset has consumed since this one read it.           *)
(***************************************************************************)
C2_SecretUsedOnce == ~(Answer("complete", 200) /\ last.again)

\* the user's stored secret is unexpired at time t
Active(u, t) == u.secret # NoSecret /\ u.expires # NoExpiry /\ u.expires > t

\* some user matches the identifier of CompleteReset request req, stores exactly its
\* secret, and the stored expiry is strictly after t
MatchAt(req, t) ==
    \E u \in (IF scheme = "code" THEN ByEmail(req.email) ELSE users) :
        u.secret = req.secret /\ u.expires # NoExpiry /\ u.expires > t

\* the same of the document the handler of req read, at the time of its checks
MatchRead(req) ==
    \E u \in req.snap : u.secret = req.secret /\ u.expires # NoExpiry /\ u.expires > req.at

(***************************************************************************)
(* C3: a CompleteReset that carries a secret and for which no user         *)
(* matches, or whose secret is not the stored one, or whose stored expiry  *)
(* is not strictly in the future, is answered 400 by the checks and never  *)
(* changes a password.                                                     *)
(***************************************************************************)
C3_ResetNeedsValidSecret ==
    [][\A r \in Slots :
          reqs[r].secret # Missing =>
          /\ (At(r, "complete", "start") /\ Answering(r) /\ ~MatchAt(reqs[r], now)
                /\ last'.resp.status # 500)
             => last'.resp.status = 400 /\ users' = users
          /\ (At(r, "complete", "save") /\ Answering(r) /\ ~MatchRead(reqs[r]))
             => last'.resp.status # 200 /\ users' = users]_vars

(***************************************************************************)
(* C4: a RequestReset for a user who holds an unexpired secret is not      *)
(* accepted: it is answered 429 (or 500 when the read fails) and the       *)
(* stored secret and expiry stay as they are.                              *)
(***************************************************************************)
C4_SecondRequestRejected ==
    [][\A r \in Slots :
          (/\ At(r, "request", "start")
           /\ reqs'[r] # reqs[r]
           /\ \E u \in ByEmail(reqs[r].email) : Active(u, now))
          => /\ reqs'[r].pc # "save"
             /\ users' = users
             /\ last'.pc = "done" => last'.resp.status \in {429, 500}]_vars

(***************************************************************************)
(* C5: no two stored users share an email, and no two share a phone.       *)
(***************************************************************************)
C5_UniqueEmailAndPhone ==
    \A u, v \in users : u # v => u.email # v.email /\ u.phone # v.phone

(***************************************************************************)
(* C6 as stated: no step takes a user from approved back to pending.       *)
(***************************************************************************)
C6_NeverBackToPending ==
    [][\A u \in users : \A v \in users' :
          u.id = v.id /\ u.status = "approved" => v.status = "approved"]_vars

(***************************************************************************)
(* C6 amended: a user goes from approved back to pending only in a step    *)
(* in which /submit-id is answered for that user.                          *)
(***************************************************************************)
C6_OnlySubmitIdDemotes ==
    [][\A u \in users : \A v \in users' :
          (u.id = v.id /\ u.status = "approved" /\ v.status # "approved")
          => \E r \in Slots : At(r, "submit-id", "start") /\ Answering(r)
                              /\ reqs[r].uid = u.id]_vars

\* an avatar update has been answered for an approved user, who still is approved
C6_Witness ==
    /\ Answer("avatar", 200)
    /\ \E u \in users : u.id = last.uid /\ u.status = "approved" /\ u.avatar # Missing

(***************************************************************************)
(* C7: the update of a successful CompleteReset stores the digest of the   *)
(* new password and clears the secret and its expiry; from then on, for an *)
(* approved user, Authenticate with the new password is given a session    *)
(* token and Authenticate with the password replaced, when it differs, is  *)
(* answered 400 invalid credentials (store and chat provider responding).  *)
(***************************************************************************)
C7_ResetRoundTrip ==
    [][\A r \in Slots : \A new \in {reqs[r].password} :
          (At(r, "complete", "save") /\ Answering(r) /\ last'.resp.status = 200)
          => \A u \in ById(reqs[r].uid) :
               \E v \in users' :
                  /\ v.id = u.id
                  /\ v.password = Hash(new)
                  /\ v.password # new
                  /\ v.secret = NoSecret /\ v.expires = NoExpiry
                  /\ v.status = "approved" =>
                       /\ LoginResp(v.email, new, TRUE, TRUE)'.token
                       /\ \A old \in Passwords :
                            (Compare(old, u.password) /\ old # new)
                            => LoginResp(v.email, old, TRUE, TRUE)'
                                  = Resp(400, "Invalid email or password")]_vars

\* a reset has just replaced the password of the approved seed user by another one
C7_Witness ==
    /\ Answer("complete", 200)
    /\ \E u \in users : /\ u.id = last.uid /\ u.status = "approved"
                        /\ u.password = Hash("NewPass1") /\ u.secret = NoSecret

(***************************************************************************)
(* C8: a RequestReset is never answered 429 because of a stored secret     *)
(* whose email dispatch has failed.                                        *)
(***************************************************************************)
C8_UndeliveredSecretDoesNotBlock ==
    [][\A r \in Slots :
          (At(r, "request", "start") /\ Answering(r) /\ last'.resp.status = 429)
          => \A u \in ByEmail(reqs[r].email) : ~u.failed]_vars

(***************************************************************************)
(* C9: DeleteAccount answers full success only when the local record is    *)
(* removed and the provider's delete resolved, and its answer to a local   *)
(* delete followed by a failed remote delete differs from the answer of    *)
(* full success and from every answer given when nothing was deleted.      *)
(***************************************************************************)
C9_PartialDeleteIsDistinct ==
    /\ Answer("delete", 200) => last.local /\ last.remote
    /\ (last.op = "delete" /\ last.pc = "done" /\ last.local /\ ~last.remote)
       => /\ last.resp # DeleteResp(TRUE, TRUE, TRUE)
          /\ \A found \in BOOLEAN, chatOk \in BOOLEAN :
                last.resp # DeleteResp(found, FALSE, chatOk)

(***************************************************************************)
(* C10: no RequestReset or CompleteReset request is left without answer.   *)
(***************************************************************************)
C10_EveryResetRequestAnswered ==
    \A r \in Slots : reqs[r].op \in RecoveryOps => reqs[r].pc # "hung"

(***************************************************************************)
(* C11: Register has three outcomes.  A request lacking a required field   *)
(* is answered 400 "Missing email or password" and stores nothing; a       *)
(* request whose email or phone a stored user has is answered 400 "User    *)
(* already exists" (500 when the store fails) and stores nothing; a        *)
(* complete request with unused email and phone, the store responding, is  *)
(* answered 201 and stores exactly one new user, in state pending, whose   *)
(* credential is the digest of the password and not the password.          *)
(***************************************************************************)
\* slot r holds a complete signup that has passed both lookups, none of which would
\* find a user now
Registrable(r) ==
    /\ At(r, "signup", "save")
    /\ ByEmail(reqs[r].email) = {} /\ ByPhone(reqs[r].phone) = {}
    /\ nextId <= MaxUsers

\* the user a successful signup of req stores
Registered(req) == NewUser(nextId, req.email, Hash(req.password), req.phone, req.image)

C11_RegisterOutcomes ==
    /\ [](\A r \in Slots :
            Registrable(r)
            => ENABLED (/\ SignupSave
                        /\ reqs'[r].pc = "idle"
                        /\ last'.resp.status = 201
                        /\ users' = users \cup {Registered(reqs[r])}))
    /\ [][\A r \in Slots :
            (reqs[r].op = "signup" /\ Answering(r))
            => LET req      == reqs[r]
                   absent   == Missing \in {req.name, req.email, req.password, req.phone,
                                            req.image, req.selfie}
                   conflict == ByEmail(req.email) # {} \/ ByPhone(req.phone) # {}
               IN  /\ absent => /\ last'.resp = Resp(400, "Missing email or password")
                                /\ users' = users
                   /\ (~absent /\ conflict)
                      => /\ last'.resp \in {Resp(400, "User already exists"),
                                            Resp(500, "Internal server error")}
                         /\ users' = users
                   /\ last'.resp.status = 201
                      => /\ ~absent /\ ~conflict
                         /\ users' = users \cup {Registered(req)}
                         /\ Registered(req) \notin users
                         /\ Registered(req).status = "pending"
                         /\ Registered(req).password # req.password
                         /\ Compare(req.password, Registered(req).password)
                   /\ last'.resp.status # 201 => users' = users]_vars

(***************************************************************************)
(* C12: a complete signup with unused email and phone, the store           *)
(* responding, is answered 201 and leaves a pending user with that email   *)
(* whose credential matches the registered password; and once a pending    *)
(* user is promoted to approved, Authenticate with the email and the       *)
(* password of that user is given a session token (store and chat          *)
(* provider responding).                                                   *)
(***************************************************************************)
C12_RegisterApproveLogin ==
    /\ [](\A r \in Slots :
            Registrable(r)
            => ENABLED (/\ SignupSave
                        /\ reqs'[r].pc = "idle"
                        /\ last'.resp.status = 201
                        /\ \E v \in users' :
                              /\ v.email = reqs[r].email
                              /\ v.status = "pending"
                              /\ Compare(reqs[r].password, v.password)))
    /\ [][\A u \in users : \A v \in users' :
            (u.id = v.id /\ u.status = "pending" /\ v.status = "approved")
            => \A p \in Passwords :
                  Compare(p, v.password) => LoginResp(v.email, p, TRUE, TRUE)'.token]_vars

\* the user holds a secret whose expiry is not after t: a CompleteReset that carries it
\* at t or later is turned away as expired
Lapsed(u, t) == u.secret # NoSecret /\ u.expires # NoExpiry /\ ~(u.expires > t)

(***************************************************************************)
(* C13: an expired secret does not poison later requests.  A RequestReset  *)
(* for a user whose stored secret has expired is not turned away (it goes  *)
(* on to store a fresh secret that expires one window later, or fails as   *)
(* the store fails); its save replaces the stored secret and expiry by the *)
(* fresh ones; and a CompleteReset that carries the stored secret before   *)
(* its expiry is not rejected by the checks and, when answered by its      *)
(* save, is answered 200.                                                  *)
(***************************************************************************)
C13_ExpiredSecretDoesNotPoison ==
    [][\A r \in Slots :
          /\ (/\ At(r, "request", "start") /\ reqs'[r] # reqs[r]
              /\ \E u \in ByEmail(reqs[r].email) : Lapsed(u, now))
             => /\ last'.pc = "done" => last'.resp.status = 500
                /\ reqs'[r].pc \in {"idle", "hung", "save"}
                /\ reqs'[r].pc = "save"
                   => /\ reqs'[r].newSecret \in Secrets
                      /\ reqs'[r].newExpires = now + TTL
                      /\ reqs'[r].newExpires > now
          /\ (At(r, "request", "save") /\ reqs'[r].pc = "mail")
             => \E v \in users' : /\ v.id = reqs[r].uid
                                  /\ v.secret = reqs[r].newSecret
                                  /\ v.expires = reqs[r].newExpires
          /\ (At(r, "complete", "start") /\ reqs'[r] # reqs[r] /\ MatchAt(reqs[r], now))
             => /\ last'.pc = "done" => last'.resp.status = 500
                /\ reqs'[r].pc \in {"idle", "hung", "save"}
          /\ (At(r, "complete", "save") /\ Answering(r))
             => last'.resp.status \in {200, 500}]_vars

\* a RequestReset has been accepted for a user whose stored secret had expired
C13_Witness ==
    \E r \in Slots :
        /\ At(r, "request", "save")
        /\ reqs[r].newExpires > now
        /\ \E u \in ById(reqs[r].uid) : Lapsed(u, now) /\ u.secret # reqs[r].newSecret

\* the answer of CompleteReset to an unknown identifier and to a secret that is not the
\* stored one
InvalidOrExpired ==
    Resp(400, IF scheme = "code" THEN "Invalid or expired code" ELSE "Invalid or expired token")

(***************************************************************************)
(* C14: every rejection of a CompleteReset by its checks is the same       *)
(* response, status and message, whichever check failed: unknown           *)
(* identifier, secret that is not the stored one, or stored secret that    *)
(* has expired.                                                            *)
(***************************************************************************)
C14_RejectionsAreAlike ==
    [][\A r \in Slots :
          (At(r, "complete", "start") /\ Answering(r) /\ last'.resp.status = 400)
          => last'.resp = InvalidOrExpired]_vars

(***************************************************************************)
(* C15: once a RequestReset has stored a new secret for a user, no         *)
(* CompleteReset succeeds for that user with another secret: a             *)
(* CompleteReset that carries a secret is never answered 200 while the     *)
(* user stores a secret that is not the one the request carries.           *)
(***************************************************************************)
C15_NewSecretInvalidatesPrior ==
    [][\A r \in Slots :
          (/\ At(r, "complete", "save") /\ Answering(r) /\ last'.resp.status = 200
           /\ reqs[r].secret # Missing)
          => \A u \in ById(reqs[r].uid) : u.secret \in {NoSecret, reqs[r].secret}]_vars

(***************************************************************************)
(* C16: UpdateAvatar for an id that no stored user has is answered 404     *)
(* (500 when the store fails) and changes nothing; for a stored user it    *)
(* changes no field other than the avatar, and applying the same update    *)
(* to the state it leaves changes nothing.                                 *)
(***************************************************************************)
C16_AvatarNotFoundOrIdempotent ==
    [][\A r \in Slots : \A id \in {reqs[r].uid} : \A avatar \in {reqs[r].image} :
          (At(r, "avatar", "start") /\ Answering(r))
          => /\ ById(id) = {}
                => last'.resp.status \in {404, 500} /\ users' = users
             /\ \A u \in users :
                   /\ u.id # id => u \in users'
                   /\ u.id = id => \E v \in users' :
                                      v \in {u, [u EXCEPT !.avatar = avatar]}
             /\ Cardinality(users') = Cardinality(users)
             /\ (last'.resp.status = 200 /\ avatar # Missing)
                => Patched(id, AvatarPatch(avatar))' = users']_vars

\* the same without the answer to an unknown id
C16_AvatarIdempotent ==
    [][\A r \in Slots : \A id \in {reqs[r].uid} : \A avatar \in {reqs[r].image} :
          (At(r, "avatar", "start") /\ Answering(r))
          => /\ \A u \in users :
                   /\ u.id # id => u \in users'
                   /\ u.id = id => \E v \in users' :
                                      v \in {u, [u EXCEPT !.avatar = avatar]}
             /\ Cardinality(users') = Cardinality(users)
             /\ (last'.resp.status = 200 /\ avatar # Missing)
                => Patched(id, AvatarPatch(avatar))' = users']_vars

\* n is in 100000..999999 and is written with exactly 6 digits
SixDigits(n) == n \in 100000..999999 /\ Len(ToString(n)) = 6

(***************************************************************************)
(* C17: every secret the code scheme generates is an integer in            *)
(* 100000..999999 written with exactly 6 decimal digits: the generator     *)
(* for the smallest, the middle and the largest value of Math.random() on  *)
(* every grid k / d, d up to MaxDenom, and every secret that a             *)
(* RequestReset of the code scheme holds or has stored.                    *)
(***************************************************************************)
C17_CodeHasSixDigits ==
    /\ \A d \in 1..MaxDenom : \A k \in {0, d \div 2, d - 1} : SixDigits(RandomInt(k, d))
    /\ \A k \in 0..(RandDenom - 1) :
          SixDigits(RandomInt(k, RandDenom)) /\ Len(GenCode(k)) = 6
    /\ scheme = "code"
       => /\ \A r \in Slots :
                reqs[r].newSecret # NoSecret
                => reqs[r].newSecret \in Codes /\ Len(reqs[r].newSecret) = 6
          /\ \A u \in users : u.secret # NoSecret => u.secret \in Codes /\ Len(u.secret) = 6

\* a 6-digit code is stored for a user and its email is about to be sent
C17_Witness ==
    /\ scheme = "code"
    /\ \E r \in Slots : /\ At(r, "request", "mail")
                        /\ \E u \in ById(reqs[r].uid) : u.secret = reqs[r].newSecret
                                                        /\ u.secret \in Codes

(***************************************************************************)
(* C18: in the code scheme a CompleteReset for a user who stores no        *)
(* recovery secret is turned away by the checks, whatever it carries, and  *)
(* a CompleteReset changes a password only when the document it read held  *)
(* a secret, the one the request carries.                                  *)
(***************************************************************************)
C18_NoStoredSecretNoReset ==
    [][\A r \in Slots :
          scheme = "code" =>
          /\ (/\ At(r, "complete", "start") /\ reqs'[r] # reqs[r]
              /\ \E u \in ByEmail(reqs[r].email) : u.secret = NoSecret)
             => /\ reqs'[r].pc # "save"
                /\ last'.pc = "done" => last'.resp.status \in {400, 500}
          /\ (At(r, "complete", "save") /\ users' # users)
             => \E u \in reqs[r].snap : u.secret # NoSecret /\ u.secret = reqs[r].secret]_vars

\* slot r holds a RequestReset that was accepted and has stored its secret, which its
\* email is about to carry
Dispatching(r) == At(r, "request", "mail")

(***************************************************************************)
(* C19: under /request-reset, the handler with the rate limit, no two      *)
(* RequestResets for one user are both accepted within one expiry window,  *)
(* and the secret an accepted RequestReset is about to dispatch is the     *)
(* secret stored for the user (unless it has been consumed or a request a  *)
(* whole window later has replaced it).                                    *)
(***************************************************************************)
C19_OverlappingRequests ==
    \A r \in Slots :
        (scheme = "code" /\ Dispatching(r))
        => /\ \A q \in Slots \ {r} :
                 (Dispatching(q) /\ reqs[q].uid = reqs[r].uid)
                 => reqs[q].newExpires >= reqs[r].newExpires + TTL
                    \/ reqs[r].newExpires >= reqs[q].newExpires + TTL
           /\ \A u \in ById(reqs[r].uid) :
                 \/ u.secret \in {reqs[r].newSecret, NoSecret}
                 \/ u.expires >= reqs[r].newExpires + TTL

(***************************************************************************)
(* C20: Authenticate checks the credential before the lifecycle state.  A  *)
(* login answered 403 pending approval carried the password of a pending   *)
(* user, and a login that carries a wrong password for a pending user is   *)
(* answered 400 invalid credentials (the store responding).                *)
(***************************************************************************)
C20_CredentialBeforeState ==
    [][\A r \in Slots : \A email \in {reqs[r].email} : \A password \in {reqs[r].password} :
          (At(r, "login", "start") /\ Answering(r))
          => /\ last'.resp.status = 403
                => \E u \in ByEmail(email) :
                      /\ u.status = "pending"
                      /\ password # Missing /\ Compare(password, u.password)
             /\ (/\ last'.local
                 /\ password # Missing
                 /\ \E u \in ByEmail(email) :
                       u.status = "pending" /\ ~Compare(password, u.password))
                => last'.resp = Resp(400, "Invalid email or password")]_vars

\* a login with a wrong password for a pending user has been answered 400
C20_Witness ==
    /\ Answer("login", 400) /\ last.local
    /\ users # {}
    /\ \A u \in users : u.email = SeedEmail /\ u.status = "pending"

(***************************************************************************)
(* C21: Authenticate returns the session token and the chat token together *)
(* or not at all.  A login for an approved user with the right password    *)
(* reaches the chat provider; when the provider's upsert fails the answer  *)
(* is 500 and carries neither token; tokens come only with status 200 and  *)
(* a resolved upsert; and no login changes a stored user.                  *)
(***************************************************************************)
C21_TokensTogetherOrNone ==
    [][\A r \in Slots : \A email \in {reqs[r].email} : \A password \in {reqs[r].password} :
          (At(r, "login", "start") /\ Answering(r))
          => /\ last'.resp.token <=> last'.resp.chatToken
             /\ last'.resp.token => last'.resp.status = 200 /\ last'.asked /\ last'.remote
             /\ (/\ last'.local /\ password # Missing
                 /\ \E u \in ByEmail(email) :
                       u.status = "approved" /\ Compare(password, u.password))
                => last'.asked
             /\ (last'.asked /\ ~last'.remote)
                => last'.resp = Resp(500, "Internal server error")
             /\ users' = users]_vars

\* the upsert at the chat provider has failed for an approved user with the right
\* password, and the login was answered 500 without token
C21_Witness ==
    /\ Answer("login", 500)
    /\ last.asked /\ ~last.remote
    /\ ~last.resp.token /\ ~last.resp.chatToken
    /\ \E u \in users : u.status = "approved"

====
